---------------------------- MODULE Spec2Model ----------------------------
(***************************************************************************)
(* Poly Bridge 2 sandbox editor: the CustomShape transform setters, the    *)
(* points property, calculate_hitbox, the hit-mask queries and the         *)
(* editor handlers that drive them (src/game_objects.py, src/editor.py).   *)
(*                                                                         *)
(* Numbers.  Python floats are modelled as exact rationals <<n, d>> in     *)
(* lowest terms (d > 0), so every arithmetic operator is the real-number   *)
(* operation the float operation approximates; rounding error of IEEE      *)
(* doubles is outside the model.  Angles are whole multiples of 90         *)
(* degrees, where math.cos / math.sin are (in real arithmetic) -1, 0, 1.   *)
(* The X/Y tilt passed to the rotations setter is 0, where euler_angles    *)
(* returns it unchanged.                                                   *)
(***************************************************************************)
EXTENDS Integers, Sequences, FiniteSets, TLC

VARIABLES
    shape,      \* the CustomShape: its dictionary fields and its attributes
    anchors,    \* the Anchor objects of the layout, by object reference
    last,       \* the operation executed last, its argument, the state before it
    prev,       \* the operation executed before `last`, likewise
    steps,      \* number of operations executed so far
    layout,     \* the editor's level: the document lists and their views
    layout_hist,\* the level before the last and before the previous operation
    call        \* a call of a module-level function: name, arguments, result

vars == <<shape, anchors, last, prev, steps, layout, layout_hist, call>>

---------------------------------------------------------------------------
(* Bounds of the model *)

MaxEdits == 2

---------------------------------------------------------------------------
(* Program constants *)

HITBOX_RESOLUTION == 40
BBoxSentinel == 1000
EpsilonInverse == 1000000

---------------------------------------------------------------------------
(* Exact rational arithmetic standing for Python's float operators *)

RECURSIVE Gcd(_, _)
Gcd(a, b) == IF b = 0 THEN a ELSE Gcd(b, a % b)

IAbs(n) == IF n < 0 THEN -n ELSE n

Norm(n, d) ==
    LET g == Gcd(IAbs(n), IAbs(d))
        s == IF d < 0 THEN -1 ELSE 1
    IN  <<(s * n) \div g, IAbs(d) \div g>>

R(n) == <<n, 1>>

RAdd(a, b) == Norm(a[1] * b[2] + b[1] * a[2], a[2] * b[2])

RNeg(a) == <<-a[1], a[2]>>

RSub(a, b) == RAdd(a, RNeg(b))

RMul(a, b) == Norm(a[1] * b[1], a[2] * b[2])

RDiv(a, b) == Norm(a[1] * b[2], a[2] * b[1])

RLt(a, b) == a[1] * b[2] < b[1] * a[2]

RLe(a, b) == a[1] * b[2] <= b[1] * a[2]

RAbs(a) == <<IAbs(a[1]), a[2]>>

RMin(a, b) == IF RLt(b, a) THEN b ELSE a

RMax(a, b) == IF RLt(a, b) THEN b ELSE a

\* Python's round(): to the nearest integer, ties to the even one.
RRound(a) ==
    LET fl   == a[1] \div a[2]
        rem2 == 2 * (a[1] - fl * a[2])
    IN  IF rem2 < a[2] THEN fl
        ELSE IF rem2 > a[2] THEN fl + 1
        ELSE IF fl % 2 = 0 THEN fl ELSE fl + 1

\* abs(x) > 0.000001
ExceedsEpsilon(x) == RLt(<<1, EpsilonInverse>>, RAbs(x))

---------------------------------------------------------------------------
(* Coordinate math *)

CosDeg(a) ==
    LET m == a % 360
    IN  CASE m = 0 -> R(1) [] m = 90 -> R(0) [] m = 180 -> R(-1) [] m = 270 -> R(0)

SinDeg(a) ==
    LET m == a % 360
    IN  CASE m = 0 -> R(0) [] m = 90 -> R(1) [] m = 180 -> R(0) [] m = 270 -> R(-1)

\* rotate(point, angle, origin): a third coordinate passes through unchanged.
rotate(point, angle, origin) ==
    LET px == RSub(point[1], origin[1])
        py == RSub(point[2], origin[2])
        x  == RAdd(RSub(RMul(CosDeg(angle), px), RMul(SinDeg(angle), py)), origin[1])
        y  == RAdd(RAdd(RMul(SinDeg(angle), px), RMul(CosDeg(angle), py)), origin[2])
    IN  IF Len(point) = 2 THEN <<x, y>> ELSE <<x, y, point[3]>>

Origin == <<R(0), R(0)>>

---------------------------------------------------------------------------
(* CustomShape: the points property *)

\* Mutant of points: the flip is applied after the rotation.
points_flip_after_rotate(s) ==
    [i \in 1..Len(s.m_PointsLocalSpace) |->
        LET p       == s.m_PointsLocalSpace[i]
            scaled  == <<RMul(p[1], s.m_Scale[1]), RMul(p[2], s.m_Scale[2])>>
            turned  == rotate(scaled, s.m_RotationDegrees, Origin)
        IN  IF s.m_Flipped THEN <<RNeg(turned[1]), turned[2]>> ELSE turned]

\* points (getter): scale, then flip, then rotate about the origin.
points(s) ==
    [i \in 1..Len(s.m_PointsLocalSpace) |->
        LET p       == s.m_PointsLocalSpace[i]
            scaled  == <<RMul(p[1], s.m_Scale[1]), RMul(p[2], s.m_Scale[2])>>
            flipped == IF s.m_Flipped THEN <<RNeg(scaled[1]), scaled[2]>> ELSE scaled
        IN  rotate(flipped, s.m_RotationDegrees, Origin)]

\* Mutant of points_set: the flip is undone before the rotation.
points_set_unflip_first(s, values) ==
    [i \in 1..Len(values) |->
        LET unflip == IF s.m_Flipped THEN <<RNeg(values[i][1]), values[i][2]>> ELSE values[i]
            unrot  == rotate(unflip, -s.m_RotationDegrees, Origin)
        IN  <<RDiv(unrot[1], s.m_Scale[1]), RDiv(unrot[2], s.m_Scale[2])>>]

\* points (setter): un-rotate, un-flip, un-scale; the new m_PointsLocalSpace.
points_set(s, values) ==
    [i \in 1..Len(values) |->
        LET unrot  == rotate(values[i], -s.m_RotationDegrees, Origin)
            unflip == IF s.m_Flipped THEN <<RNeg(unrot[1]), unrot[2]>> ELSE unrot
        IN  <<RDiv(unflip[1], s.m_Scale[1]), RDiv(unflip[2], s.m_Scale[2])>>]

\* The absolute world position of vertex i: position + points[i].
AbsVertex(s, i) ==
    <<RAdd(s.m_Pos[1], points(s)[i][1]), RAdd(s.m_Pos[2], points(s)[i][2])>>

---------------------------------------------------------------------------
(* CustomShape.calculate_hitbox *)

RECURSIVE FoldMin(_, _, _, _)
FoldMin(pts, k, i, acc) ==
    IF i > Len(pts) THEN acc ELSE FoldMin(pts, k, i + 1, RMin(acc, pts[i][k]))

RECURSIVE FoldMax(_, _, _, _)
FoldMax(pts, k, i, acc) ==
    IF i > Len(pts) THEN acc ELSE FoldMax(pts, k, i + 1, RMax(acc, pts[i][k]))

\* The bounding rect of the points: the running min / max start at +-1000.
bounding_rect(points_base) ==
    [leftmost   |-> FoldMin(points_base, 1, 1, R(BBoxSentinel)),
     rightmost  |-> FoldMax(points_base, 1, 1, R(-BBoxSentinel)),
     topmost    |-> FoldMin(points_base, 2, 1, R(BBoxSentinel)),
     bottommost |-> FoldMax(points_base, 2, 1, R(-BBoxSentinel))]

\* center = (leftmost + width / 2 + basepos[0], topmost + height / 2 + basepos[1])
hitbox_center(b, basepos) ==
    <<RAdd(RAdd(b.leftmost, RDiv(RSub(b.rightmost, b.leftmost), R(2))), basepos[1]),
      RAdd(RAdd(b.topmost, RDiv(RSub(b.bottommost, b.topmost), R(2))), basepos[2])>>

\* The hitbox bitmap: the raster vertices handed to pygame.draw.polygon and
\* the surface size, from the points and the bounding rect's corner.
hitbox_bitmap(pts, leftmost, topmost, width, height) ==
    [points_base   |-> pts,
     points_hitbox |-> [i \in 1..Len(pts) |->
                          <<RRound(RMul(R(HITBOX_RESOLUTION), RSub(pts[i][1], leftmost))),
                            RRound(RMul(R(-HITBOX_RESOLUTION), RAdd(pts[i][2], topmost)))>>],
     size          |-> <<RAdd(RMul(R(HITBOX_RESOLUTION), width), R(1)),
                         RAdd(RMul(R(HITBOX_RESOLUTION), height), R(1))>>]

\* The align_center branch: position moves to the center, the points are
\* re-expressed relative to it, the offset is zeroed.
hitbox_aligned(s, b, center, moved, d) ==
    [s EXCEPT !.m_Pos = <<center[1], center[2], s.m_Pos[3]>>,
              !.m_PointsLocalSpace = points_set(s, moved),
              !._center_offset = <<R(0), R(0)>>,
              !._hitbox = hitbox_bitmap(moved, RAdd(b.leftmost, d[1]), RAdd(b.topmost, d[2]),
                                        RSub(b.rightmost, b.leftmost),
                                        RSub(b.bottommost, b.topmost))]

\* The other branch: only the offset position - center is recorded.
hitbox_unaligned(s, b, points_base, d) ==
    [s EXCEPT !._center_offset = d,
              !._hitbox = hitbox_bitmap(points_base, b.leftmost, b.topmost,
                                        RSub(b.rightmost, b.leftmost),
                                        RSub(b.bottommost, b.topmost))]

\* Mutant of hitbox_shift: the points move by center - basepos.
hitbox_shift_negated(points_base, d) ==
    [i \in 1..Len(points_base) |->
        <<RSub(points_base[i][1], d[1]), RSub(points_base[i][2], d[2])>>]

\* points_base = [(point[0] + basepos[0] - center[0], point[1] + basepos[1] - center[1]) ...]
hitbox_shift(points_base, d) ==
    [i \in 1..Len(points_base) |->
        <<RAdd(points_base[i][1], d[1]), RAdd(points_base[i][2], d[2])>>]

hitbox_adjust(s, align_center, points_base, b, center, d) ==
    IF align_center
    THEN hitbox_aligned(s, b, center, hitbox_shift(points_base, d), d)
    ELSE hitbox_unaligned(s, b, points_base, d)

hitbox_offset(basepos, center) ==
    <<RSub(basepos[1], center[1]), RSub(basepos[2], center[2])>>

hitbox_from_center(s, align_center, points_base, b, center) ==
    hitbox_adjust(s, align_center, points_base, b, center, hitbox_offset(s.m_Pos, center))

hitbox_from_rect(s, align_center, points_base, b) ==
    hitbox_from_center(s, align_center, points_base, b, hitbox_center(b, s.m_Pos))

hitbox_from_points(s, align_center, points_base) ==
    hitbox_from_rect(s, align_center, points_base, bounding_rect(points_base))

calculate_hitbox(s, align_center) == hitbox_from_points(s, align_center, points(s))

---------------------------------------------------------------------------
(* The hit mask and its queries *)

\* What a call gives back: a value, or the exception it raises.
Returned(v) == [raised |-> "none", value |-> v]

Raised(e) == [raised |-> e, value |-> <<>>]

IMin(a, b) == IF a < b THEN a ELSE b

IMax(a, b) == IF a < b THEN b ELSE a

\* Pixel (x, y) lies on the polygon's edge from a to b.
on_edge(a, b, x, y) ==
    /\ (b[1] - a[1]) * (y - a[2]) = (b[2] - a[2]) * (x - a[1])
    /\ IMin(a[1], b[1]) <= x /\ x <= IMax(a[1], b[1])
    /\ IMin(a[2], b[2]) <= y /\ y <= IMax(a[2], b[2])

\* The ray from pixel (x, y) to the right crosses the edge from a to b.
crosses(a, b, x, y) ==
    /\ (a[2] > y) # (b[2] > y)
    /\ IF b[2] > a[2]
       THEN (x - a[1]) * (b[2] - a[2]) < (y - a[2]) * (b[1] - a[1])
       ELSE (x - a[1]) * (b[2] - a[2]) > (y - a[2]) * (b[1] - a[1])

\* Mutant of polygon_filled: only the outline is drawn (width = 1).
polygon_outline(pts, x, y) ==
    \E i \in 1..Len(pts) :
        on_edge(pts[i], pts[IF i = Len(pts) THEN 1 ELSE i + 1], x, y)

\* pygame.draw.polygon(surface, BLACK, points_hitbox) and mask.from_surface:
\* the pixels of the filled polygon, its outline included.
polygon_filled(pts, x, y) ==
    LET n       == Len(pts)
        next(i) == IF i = n THEN 1 ELSE i + 1
    IN  \/ \E i \in 1..n : on_edge(pts[i], pts[next(i)], x, y)
        \/ Cardinality({i \in 1..n : crosses(pts[i], pts[next(i)], x, y)}) % 2 = 1

\* self._hitbox.get_size(): the surface's size, whole pixels.
mask_get_size(hitbox) ==
    <<hitbox.size[1][1] \div hitbox.size[1][2], hitbox.size[2][1] \div hitbox.size[2][2]>>

\* Mask.get_at((x, y)): IndexError outside the mask.
mask_get_at(hitbox, x, y) ==
    IF /\ 0 <= x /\ x < mask_get_size(hitbox)[1]
       /\ 0 <= y /\ y < mask_get_size(hitbox)[2]
    THEN Returned(polygon_filled(hitbox.points_hitbox, x, y))
    ELSE Raised("IndexError")

\* Mask.overlap(mask, (x, y)) for a filled mask of size (w, h): whether a set
\* pixel of the hitbox lies under it (None, hence False, when none does).
mask_overlap(hitbox, w, h, x, y) ==
    \E i \in IMax(0, x)..(IMin(mask_get_size(hitbox)[1], x + w) - 1) :
        \E j \in IMax(0, y)..(IMin(mask_get_size(hitbox)[2], y + h) - 1) :
            polygon_filled(hitbox.points_hitbox, i, j)

\* SelectableObject.render: the zoom and camera of the pass are recorded.
render(s, camera, zoom) == [s EXCEPT !._last_zoom = zoom, !._last_camera = camera]

\* The raster coordinate collidepoint and colliderect derive from a screen point.
raster_coords(s, point) ==
    <<RRound(RAdd(RMul(RAdd(RSub(RSub(RDiv(point[1], s._last_zoom), s._last_camera[1]),
                                 s.m_Pos[1]),
                            s._center_offset[1]),
                       R(HITBOX_RESOLUTION)),
                  RDiv(R(mask_get_size(s._hitbox)[1]), R(2)))),
      RRound(RAdd(RMul(RAdd(RAdd(RAdd(RDiv(point[2], s._last_zoom), s._last_camera[2]),
                                 s.m_Pos[2]),
                            s._center_offset[2]),
                       R(HITBOX_RESOLUTION)),
                  RDiv(R(mask_get_size(s._hitbox)[2]), R(2))))>>

\* Mutant of collidepoint_at: the mask is read without the range test.
collidepoint_unchecked(s, c) == mask_get_at(s._hitbox, c[1], c[2])

\* The last line of collidepoint, c the raster coordinate.
collidepoint_at(s, c) ==
    IF /\ 0 <= c[1] /\ c[1] < mask_get_size(s._hitbox)[1]
       /\ 0 <= c[2] /\ c[2] < mask_get_size(s._hitbox)[2]
    THEN mask_get_at(s._hitbox, c[1], c[2])
    ELSE Returned(FALSE)

\* SelectableObject.collidepoint
collidepoint(s, point) == collidepoint_at(s, raster_coords(s, point))

\* rect_hitbox_mask(rect, zoom): the size of the filled mask
rect_hitbox_mask(rect, zoom) ==
    <<IMax(1, RRound(RMul(RDiv(rect[3], zoom), R(HITBOX_RESOLUTION)))),
      IMax(1, RRound(RMul(RDiv(rect[4], zoom), R(HITBOX_RESOLUTION))))>>

colliderect_at(s, c, mask) == Returned(mask_overlap(s._hitbox, mask[1], mask[2], c[1], c[2]))

\* SelectableObject.colliderect, mask = None
colliderect(s, rect) ==
    colliderect_at(s, raster_coords(s, rect), rect_hitbox_mask(rect, s._last_zoom))

---------------------------------------------------------------------------
(* CustomShape: the transform setters.  Each yields the new shape and the  *)
(* new anchors as a record [shape, anchors].                               *)

\* LayoutObject.pos (setter): a 2-tuple keeps the stored z.
layout_pos_set(old, value) ==
    IF Len(value) = 2 THEN <<value[1], value[2], old[3]>>
    ELSE <<value[1], value[2], value[3]>>

\* Anchor.pos = (x, y) or (x, y, z).
anchor_pos_set(old, value) == layout_pos_set(old, value)

\* for anchor in self.anchors: anchor.pos = (anchor.pos[0] + change[0], ...)
RECURSIVE move_anchors(_, _, _, _)
move_anchors(refs, i, heap, change) ==
    IF i > Len(refs) THEN heap
    ELSE move_anchors(refs, i + 1,
            [heap EXCEPT ![refs[i]].m_Pos =
                anchor_pos_set(@, <<RAdd(@[1], change[1]), RAdd(@[2], change[2])>>)],
            change)

\* Mutant of pos_set: the change is computed after the position is written.
pos_set_late_change(s, heap, value) ==
    [shape   |-> [s EXCEPT !.m_Pos = layout_pos_set(s.m_Pos, value)],
     anchors |-> heap]

\* CustomShape.pos (setter)
pos_set(s, heap, value) ==
    LET change == <<RSub(value[1], s.m_Pos[1]), RSub(value[2], s.m_Pos[2])>>
        MovePin(pin) == [pin EXCEPT !.x = RAdd(pin.x, change[1]),
                                    !.y = RAdd(pin.y, change[2])]
    IN  [shape   |-> [s EXCEPT !.m_Pos = layout_pos_set(s.m_Pos, value),
                               !.m_StaticPins = [i \in 1..Len(s.m_StaticPins) |->
                                                    MovePin(s.m_StaticPins[i])]],
         anchors |-> move_anchors(s.anchors, 1, heap, change)]

\* quaternion(x, y, z): m_Rot is kept as the Euler triple it is computed from.
quaternion(x, y, z) == <<x, y, z>>

\* euler_angles(m_Rot), X and Y components; with zero tilt the quaternion is
\* (0, 0, sin(z/2), cos(z/2)) and the formula returns x = 0, y = 0.
euler_angles_xy(q) == <<q[1], q[2]>>

\* for anchor in self.anchors: anchor.pos = rotate(anchor.pos, change, basepos)
RECURSIVE turn_anchors(_, _, _, _, _)
turn_anchors(refs, i, heap, change, basepos) ==
    IF i > Len(refs) THEN heap
    ELSE turn_anchors(refs, i + 1,
            [heap EXCEPT ![refs[i]].m_Pos = anchor_pos_set(@, rotate(@, change, basepos))],
            change, basepos)

\* Mutant of rotations_set: pins and anchors turn about the world origin.
rotations_set_about_origin(s, heap, values) ==
    LET change   == values[3] - s.m_RotationDegrees
        s1       == [s EXCEPT !.m_Rot = quaternion(values[1], values[2], values[3]),
                              !.m_RotationDegrees = values[3]]
        TurnPin(pin) ==
            LET newpin == rotate(<<pin.x, pin.y>>, change, Origin)
            IN  [pin EXCEPT !.x = newpin[1], !.y = newpin[2]]
    IN  IF ExceedsEpsilon(R(change))
        THEN [shape   |-> [s1 EXCEPT !.m_StaticPins = [i \in 1..Len(s.m_StaticPins) |->
                                                          TurnPin(s.m_StaticPins[i])]],
              anchors |-> turn_anchors(s.anchors, 1, heap, change, Origin)]
        ELSE [shape |-> s1, anchors |-> heap]

\* CustomShape.rotations (setter)
rotations_set(s, heap, values) ==
    LET old_rotz == s.m_RotationDegrees
        change   == values[3] - old_rotz
        basepos  == s.m_Pos
        s1       == [s EXCEPT !.m_Rot = quaternion(values[1], values[2], values[3]),
                              !.m_RotationDegrees = values[3]]
        TurnPin(pin) ==
            LET newpin == rotate(<<pin.x, pin.y>>, change, basepos)
            IN  [pin EXCEPT !.x = newpin[1], !.y = newpin[2]]
    IN  IF ExceedsEpsilon(R(change))
        THEN [shape   |-> [s1 EXCEPT !.m_StaticPins = [i \in 1..Len(s.m_StaticPins) |->
                                                          TurnPin(s.m_StaticPins[i])]],
              anchors |-> turn_anchors(s.anchors, 1, heap, change, basepos)]
        ELSE [shape |-> s1, anchors |-> heap]

\* CustomShape.rotation (setter): x, y are read back from m_Rot.
rotation_set(s, heap, value) ==
    LET xy == euler_angles_xy(s.m_Rot)
    IN  rotations_set(s, heap, <<xy[1], xy[2], value>>)

\* The reflection the flipped setter applies to one pin or anchor position.
flip_point(p, rotation, basepos) ==
    LET unrot    == rotate(p, -rotation, basepos)
        mirrored == <<RSub(RMul(R(2), basepos[1]), unrot[1]), unrot[2]>>
    IN  rotate(mirrored, rotation, basepos)

\* for anchor in self.anchors: anchor.pos = the reflection of anchor.pos
RECURSIVE flip_anchors(_, _, _, _, _)
flip_anchors(refs, i, heap, rotation, basepos) ==
    IF i > Len(refs) THEN heap
    ELSE flip_anchors(refs, i + 1,
            [heap EXCEPT ![refs[i]].m_Pos = anchor_pos_set(@, flip_point(@, rotation, basepos))],
            rotation, basepos)

\* Mutant of flipped_set: the reflection is applied on every assignment,
\* also when the value does not change.
flipped_set_unguarded(s, heap, value) ==
    LET basepos == s.m_Pos
        FlipPin(pin) ==
            LET newpin == flip_point(<<pin.x, pin.y>>, s.m_RotationDegrees, basepos)
            IN  [pin EXCEPT !.x = newpin[1], !.y = newpin[2]]
    IN  [shape   |-> [s EXCEPT !.m_Flipped = value,
                               !.m_StaticPins = [i \in 1..Len(s.m_StaticPins) |->
                                                    FlipPin(s.m_StaticPins[i])]],
         anchors |-> flip_anchors(s.anchors, 1, heap, s.m_RotationDegrees, basepos)]

\* CustomShape.flipped (setter)
flipped_set(s, heap, value) ==
    LET old_flipped == s.m_Flipped
        basepos     == s.m_Pos
        s1          == [s EXCEPT !.m_Flipped = value]
        FlipPin(pin) ==
            LET newpin == flip_point(<<pin.x, pin.y>>, s.m_RotationDegrees, basepos)
            IN  [pin EXCEPT !.x = newpin[1], !.y = newpin[2]]
    IN  IF old_flipped # value
        THEN [shape   |-> [s1 EXCEPT !.m_StaticPins = [i \in 1..Len(s.m_StaticPins) |->
                                                          FlipPin(s.m_StaticPins[i])]],
              anchors |-> flip_anchors(s.anchors, 1, heap, s.m_RotationDegrees, basepos)]
        ELSE [shape |-> s1, anchors |-> heap]

\* The per-axis rescaling the scale setter applies to one pin or anchor position.
scale_point(p, change, basepos) ==
    <<RAdd(RMul(RSub(p[1], basepos[1]), change[1]), basepos[1]),
      RAdd(RMul(RSub(p[2], basepos[2]), change[2]), basepos[2])>>

\* for anchor in self.anchors: anchor.pos = anchor.pos rescaled about basepos
RECURSIVE scale_anchors(_, _, _, _, _)
scale_anchors(refs, i, heap, change, basepos) ==
    IF i > Len(refs) THEN heap
    ELSE scale_anchors(refs, i + 1,
            [heap EXCEPT ![refs[i]].m_Pos = anchor_pos_set(@, scale_point(@, change, basepos))],
            change, basepos)

\* Mutant of scale_set: the epsilon test lacks abs(), so a ratio below 1
\* does not count as a change.
scale_set_no_abs(s, heap, value) ==
    LET old_scale == s.m_Scale
        s1        == [s EXCEPT !.m_Scale = IF Len(value) = 2
                                           THEN <<value[1], value[2], old_scale[3]>>
                                           ELSE <<value[1], value[2], value[3]>>]
        change    == <<RDiv(value[1], old_scale[1]), RDiv(value[2], old_scale[2])>>
        basepos   == s.m_Pos
        ScalePin(pin) ==
            LET newpin == scale_point(<<pin.x, pin.y>>, change, basepos)
            IN  [pin EXCEPT !.x = newpin[1], !.y = newpin[2]]
    IN  IF RLt(<<1, EpsilonInverse>>, RSub(change[1], R(1)))
           \/ RLt(<<1, EpsilonInverse>>, RSub(change[2], R(1)))
        THEN [shape   |-> [s1 EXCEPT !.m_StaticPins = [i \in 1..Len(s.m_StaticPins) |->
                                                          ScalePin(s.m_StaticPins[i])]],
              anchors |-> scale_anchors(s.anchors, 1, heap, change, basepos)]
        ELSE [shape |-> s1, anchors |-> heap]

\* CustomShape.scale (setter)
scale_set(s, heap, value) ==
    LET old_scale == s.m_Scale
        s1        == [s EXCEPT !.m_Scale = IF Len(value) = 2
                                           THEN <<value[1], value[2], old_scale[3]>>
                                           ELSE <<value[1], value[2], value[3]>>]
        change    == <<RDiv(value[1], old_scale[1]), RDiv(value[2], old_scale[2])>>
        basepos   == s.m_Pos
        ScalePin(pin) ==
            LET newpin == scale_point(<<pin.x, pin.y>>, change, basepos)
            IN  [pin EXCEPT !.x = newpin[1], !.y = newpin[2]]
    IN  IF ExceedsEpsilon(RSub(change[1], R(1))) \/ ExceedsEpsilon(RSub(change[2], R(1)))
        THEN [shape   |-> [s1 EXCEPT !.m_StaticPins = [i \in 1..Len(s.m_StaticPins) |->
                                                          ScalePin(s.m_StaticPins[i])]],
              anchors |-> scale_anchors(s.anchors, 1, heap, change, basepos)]
        ELSE [shape |-> s1, anchors |-> heap]

IsZero(x) == x[1] = 0

RNegPair(p) == <<RNeg(p[1]), RNeg(p[2])>>

\* closest_point: None is Returned(<<>>). The try block raises
\* ZeroDivisionError at s1 when the x coordinates are equal and at -1 / s1
\* when the y coordinates are equal; s2 - s1 is never 0.
closest_point_slanted(l1, l2, p, s1) ==
    LET s2 == RDiv(R(-1), s1)
        a1 == RSub(l1[2], RMul(l1[1], s1))
        a2 == RSub(p[2], RMul(p[1], s2))
        x  == RDiv(RNeg(RSub(a2, a1)), RSub(s2, s1))
    IN  IF (RLe(l1[1], x) /\ RLe(x, l2[1])) \/ (RLe(l2[1], x) /\ RLe(x, l1[1]))
        THEN Returned(<<x, RAdd(RMul(s1, x), a1)>>)
        ELSE Returned(<<>>)

closest_point_vertical(l1, l2, p) ==
    IF (RLe(l1[2], p[2]) /\ RLe(p[2], l2[2])) \/ (RLe(l2[2], p[2]) /\ RLe(p[2], l1[2]))
    THEN Returned(<<l1[1], p[2]>>)
    ELSE Returned(<<>>)

closest_point_horizontal(l1, l2, p) ==
    IF (RLe(l1[1], p[1]) /\ RLe(p[1], l2[1])) \/ (RLe(l2[1], p[1]) /\ RLe(p[1], l1[1]))
    THEN Returned(<<p[1], l1[2]>>)
    ELSE Returned(<<>>)

closest_point(l1, l2, p) ==
    IF IsZero(RSub(l2[1], l1[1])) \/ IsZero(RSub(l2[2], l1[2]))
    THEN IF IsZero(RSub(l2[1], l1[1]))
         THEN closest_point_vertical(l1, l2, p)
         ELSE closest_point_horizontal(l1, l2, p)
    ELSE closest_point_slanted(l1, l2, p, RDiv(RSub(l2[2], l1[2]), RSub(l2[1], l1[1])))

\* The scale setter as a call: m_Scale is written first, then value / old
\* scale raises ZeroDivisionError when a component of the old scale is 0.
scale_assign(s, heap, value) ==
    IF IsZero(s.m_Scale[1]) \/ IsZero(s.m_Scale[2])
    THEN [shape   |-> [s EXCEPT !.m_Scale = IF Len(value) = 2
                                            THEN <<value[1], value[2], s.m_Scale[3]>>
                                            ELSE <<value[1], value[2], value[3]>>],
          anchors |-> heap,
          result  |-> Raised("ZeroDivisionError")]
    ELSE [shape   |-> scale_set(s, heap, value).shape,
          anchors |-> scale_set(s, heap, value).anchors,
          result  |-> Returned(<<>>)]

\* The points setter as a call: p / scale raises ZeroDivisionError on a zero
\* scale component, before m_PointsLocalSpace is assigned.
points_assign(s, values) ==
    IF IsZero(s.m_Scale[1]) \/ IsZero(s.m_Scale[2])
    THEN [shape |-> s, result |-> Raised("ZeroDivisionError")]
    ELSE [shape  |-> [s EXCEPT !.m_PointsLocalSpace = points_set(s, values)],
          result |-> Returned(<<>>)]

\* CustomShape.del_point (index counted from 1; selected_point_index 0 is None)
del_point(s, index) ==
    LET pts  == points(s)
        kept == [i \in 1..(Len(pts) - 1) |-> IF i < index THEN pts[i] ELSE pts[i + 1]]
        s1   == [s EXCEPT !.m_PointsLocalSpace = points_set(s, kept),
                          !.selected_point_index = 0]
    IN  calculate_hitbox(s1, TRUE)

\* CustomShape.color (getter / setter)
color_get(s) == [i \in 1..4 |-> RRound(RMul(s.m_Color[i], R(255)))]

color_set(s, value) == [s EXCEPT !.m_Color = [i \in 1..4 |-> RDiv(R(value[i]), R(255))]]

---------------------------------------------------------------------------
(* Inputs of the model *)

\* Vertex lists of the level's shapes (m_PointsLocalSpace).
Triangle == <<<<R(0), R(0)>>, <<R(2), R(0)>>, <<R(1), R(2)>>>>

Quad == <<<<R(-2), R(-1)>>, <<R(2), R(-1)>>, <<R(2), R(1)>>, <<R(-1), R(1)>>>>

Angles == {0, 90, 180}

Half == <<1, 2>>

\* The shapes a level starts with: points, Z rotation, scale.
InitConfigs == {<<Triangle, 0, <<R(1), R(1)>>>>,
                <<Triangle, 90, <<Half, R(1)>>>>,
                <<Quad, 90, <<R(1), R(1)>>>>,
                <<Quad, 0, <<Half, R(1)>>>>}

ScaleInputs == {<<R(2), R(1)>>, <<Half, R(1)>>, <<R(1), R(2)>>}

Deltas == {<<R(2), R(0)>>, <<R(1), R(-1)>>}

\* A square of side 2 about the origin.
Square == <<<<R(-1), R(-1)>>, <<R(1), R(-1)>>, <<R(1), R(1)>>, <<R(-1), R(1)>>>>

\* The shapes the hit tests are run on: points, Z rotation, scale.
QueryConfigs == {<<Square, 0, <<R(1), R(1)>>>>,
                 <<Square, 90, <<R(1), R(1)>>>>,
                 <<Triangle, 0, <<R(1), R(1)>>>>}

\* Zoom and camera of a render pass.
Zooms == {R(20), R(40)}

Cameras == {<<R(0), R(0)>>, <<R(3), R(-2)>>}

\* World points hit-tested, relative to the shape's position, and the size
\* in pixels of the selection rectangle.
QueryOffsets == {<<R(0), R(0)>>, <<Half, Half>>, <<R(11), R(0)>>, <<R(-11), R(0)>>,
                 <<R(0), R(11)>>, <<R(0), R(-11)>>, <<R(-11), R(-11)>>}

RectSize == <<R(2), R(2)>>

\* Scales assigned where a zero component is among the inputs.
ScaleInputsWithZero == ScaleInputs \cup {<<R(0), R(1)>>, <<R(1), R(0)>>}

\* Points handed to closest_point: segment ends and the point checked from.
GridPoints == {<<R(x), R(y)>> : x \in 0..2, y \in 0..2}

\* Values the edit window hands back: scale, Z rotation, flipped.
EditInputs == {<<<<R(2), R(1)>>, 90, TRUE>>,
               <<<<R(1), R(2)>>, 0, FALSE>>,
               <<<<Half, R(1)>>, 180, FALSE>>}

---------------------------------------------------------------------------
(* LayoutList: a document list of dictionaries (_dictlist) and the list of *)
(* the objects that wrap them (_objlist).  An object and the dictionary it *)
(* wraps are named by one identifier; two dictionaries are equal when      *)
(* their contents are, two objects only when they are the same object.     *)

\* LayoutObject.dictionary of a CustomShape: the document fields, without
\* the attributes of the wrapping object.
dictionary(s) ==
    [m_Pos                |-> s.m_Pos,
     m_Rot                |-> s.m_Rot,
     m_RotationDegrees    |-> s.m_RotationDegrees,
     m_Flipped            |-> s.m_Flipped,
     m_Scale              |-> s.m_Scale,
     m_Color              |-> s.m_Color,
     m_PointsLocalSpace   |-> s.m_PointsLocalSpace,
     m_StaticPins         |-> s.m_StaticPins,
     m_DynamicAnchorGuids |-> s.m_DynamicAnchorGuids]

\* list.index under ==: the first position whose dictionary has the
\* contents of elem's dictionary, 0 when there is none (ValueError).
RECURSIVE index_of_equal(_, _, _, _)
index_of_equal(dictlist, dicts, elem, i) ==
    IF i > Len(dictlist) THEN 0
    ELSE IF dicts[dictlist[i]] = dicts[elem] THEN i
    ELSE index_of_equal(dictlist, dicts, elem, i + 1)

\* list.index of an object: objects define no __eq__, so by identity.
RECURSIVE index_of_same(_, _, _)
index_of_same(objlist, elem, i) ==
    IF i > Len(objlist) THEN 0
    ELSE IF objlist[i] = elem THEN i
    ELSE index_of_same(objlist, elem, i + 1)

remove_at(seq, i) ==
    IF i = 0 THEN seq
    ELSE [k \in 1..(Len(seq) - 1) |-> IF k < i THEN seq[k] ELSE seq[k + 1]]

LayoutList_append(l, elem) ==
    [_dictlist |-> Append(l._dictlist, elem), _objlist |-> Append(l._objlist, elem)]

LayoutList_extend(l, elems) ==
    [_dictlist |-> l._dictlist \o elems, _objlist |-> l._objlist \o elems]

\* LayoutList.remove: _dictlist.remove(elem.dictionary), _objlist.remove(elem)
LayoutList_remove(l, dicts, elem) ==
    [_dictlist |-> remove_at(l._dictlist, index_of_equal(l._dictlist, dicts, elem, 1)),
     _objlist  |-> remove_at(l._objlist, index_of_same(l._objlist, elem, 1))]

\* list.remove raises ValueError when no element equals the argument.
remove_raises(l, dicts, elem) ==
    \/ index_of_equal(l._dictlist, dicts, elem, 1) = 0
    \/ index_of_same(l._objlist, elem, 1) = 0

---------------------------------------------------------------------------
(* Initial state: a level with one custom shape, two static pins (the      *)
(* first on vertex 1) and two anchors (the first bound to the shape, on    *)
(* vertex 2; the second bound to no shape).                                *)

RawShape(local, rot, sc, fl) ==
    [m_Pos                |-> <<R(5), R(5), R(0)>>,
     m_Rot                |-> quaternion(0, 0, rot),
     m_RotationDegrees    |-> rot,
     m_Flipped            |-> fl,
     m_Scale              |-> <<sc[1], sc[2], R(1)>>,
     m_Color              |-> <<R(1), R(1), R(1), R(1)>>,
     m_PointsLocalSpace   |-> local,
     m_StaticPins         |-> <<>>,
     m_DynamicAnchorGuids |-> <<"g1">>,
     anchors              |-> <<1>>,
     selected_point_index |-> 0,
     _center_offset       |-> <<R(0), R(0)>>,
     _last_zoom           |-> R(1),
     _last_camera         |-> <<R(0), R(0)>>,
     _hitbox              |-> <<>>]

\* CustomShape.__init__: the anchors are resolved, then calculate_hitbox().
NewShape(local, rot, sc, fl) ==
    LET raw == RawShape(local, rot, sc, fl)
        v1  == AbsVertex(raw, 1)
    IN  calculate_hitbox(
            [raw EXCEPT !.m_StaticPins = << [x |-> v1[1], y |-> v1[2], z |-> R(0)],
                                            [x |-> R(5), y |-> R(1), z |-> R(0)] >>],
            FALSE)

NewAnchors(s) ==
    LET v2 == AbsVertex(s, 2)
    IN  [r \in {1, 2} |->
            IF r = 1 THEN [m_Guid |-> "g1", m_Pos |-> <<v2[1], v2[2], R(0)>>]
                     ELSE [m_Guid |-> "g2", m_Pos |-> <<R(1), R(1), R(0)>>]]

---------------------------------------------------------------------------
(* The level the editor works on: the objects of custom_shapes and pillars *)
(* (by object identifier), the anchor dictionaries (by reference), the     *)
(* three LayoutLists, the identifiers of the objects whose `selected` is   *)
(* set, the number of identifiers uuid4 has handed out, and the exception  *)
(* that ended the main loop, if any.                                       *)

\* A shape bound to anchor g1, and a shape bound to no anchor.
ShapeA == NewShape(Triangle, 0, <<R(1), R(1)>>, FALSE)

ShapeB == [NewShape(Quad, 90, <<R(1), R(1)>>, FALSE)
              EXCEPT !.m_DynamicAnchorGuids = <<>>, !.anchors = <<>>]

\* A second shape that lists anchor g1.
ShapeC == [NewShape(Quad, 0, <<R(1), R(1)>>, FALSE)
              EXCEPT !.m_Pos = <<R(9), R(5), R(0)>>]

PillarP == [m_Pos |-> <<R(0), R(0), R(0)>>, m_Height |-> R(3)]

LevelNames == {"plain", "twins", "shared"}

\* plain: shapes A and B; twins: two shapes with equal records; shared: two
\* shapes that list the same anchor.  Each has one pillar and two anchors.
Level(name, sel) ==
    [shapes        |-> [id \in {1, 2} |->
                          CASE name = "plain"  -> IF id = 1 THEN ShapeA ELSE ShapeB
                            [] name = "twins"  -> ShapeB
                            [] name = "shared" -> IF id = 1 THEN ShapeA ELSE ShapeC],
     pillar_objs   |-> [id \in {3} |-> PillarP],
     anchor_nodes  |-> NewAnchors(ShapeA),
     custom_shapes |-> [_dictlist |-> <<1, 2>>, _objlist |-> <<1, 2>>],
     pillars       |-> [_dictlist |-> <<3>>, _objlist |-> <<3>>],
     anchors       |-> [_dictlist |-> <<1, 2>>, _objlist |-> <<1, 2>>],
     selected      |-> sel,
     uuids         |-> 0,
     raised        |-> "none"]

\* No function call is in progress.
NoCall == [fn |-> "none", args |-> <<>>, result |-> <<>>]

Init ==
    \E c \in InitConfigs :
        /\ shape = NewShape(c[1], c[2], c[3], FALSE)
        /\ anchors = NewAnchors(shape)
        /\ last = [op |-> "init", arg |-> <<>>, shape |-> shape, anchors |-> anchors]
        /\ prev = last
        /\ steps = 0
        /\ layout = Level("plain", {})
        /\ layout_hist = [last |-> layout, prev |-> layout]
        /\ call = NoCall

\* One shape, rendered and hit-tested.
InitQuery ==
    /\ \E c \in QueryConfigs : shape = NewShape(c[1], c[2], c[3], FALSE)
    /\ anchors = NewAnchors(shape)
    /\ last = [op |-> "init", arg |-> <<>>, shape |-> shape, anchors |-> anchors]
    /\ prev = last
    /\ steps = 0
    /\ layout = Level("plain", {})
    /\ layout_hist = [last |-> layout, prev |-> layout]
    /\ call = NoCall

\* The editor on one of the levels, with some of its objects selected.
InitClosestPoint ==
    /\ shape = NewShape(Triangle, 0, <<R(1), R(1)>>, FALSE)
    /\ anchors = NewAnchors(shape)
    /\ last = [op |-> "init", arg |-> <<>>, shape |-> shape, anchors |-> anchors]
    /\ prev = last
    /\ steps = 0
    /\ layout = Level("plain", {})
    /\ layout_hist = [last |-> layout, prev |-> layout]
    /\ \E l1 \in GridPoints, l2 \in GridPoints, p \in GridPoints :
          call = [fn |-> "closest_point", args |-> <<l1, l2, p>>, result |-> <<>>]

InitLayout ==
    /\ shape = ShapeA
    /\ anchors = NewAnchors(shape)
    /\ last = [op |-> "init", arg |-> <<>>, shape |-> shape, anchors |-> anchors]
    /\ prev = last
    /\ steps = 0
    /\ \E name \in LevelNames, sel \in SUBSET {1, 2, 3} : layout = Level(name, sel)
    /\ layout_hist = [last |-> layout, prev |-> layout]
    /\ call = NoCall

---------------------------------------------------------------------------
(* Operations *)

CanEdit == steps < MaxEdits

Record(op, arg) ==
    /\ last' = [op |-> op, arg |-> arg, shape |-> shape, anchors |-> anchors]
    /\ prev' = last
    /\ steps' = steps + 1
    /\ UNCHANGED <<layout, layout_hist, call>>

AssignWorld(w) ==
    /\ shape' = w.shape
    /\ anchors' = w.anchors

\* shape.pos = (x + dx, y + dy), as the editor's arrow keys and duplicate do
SetPos ==
    /\ CanEdit
    /\ \E d \in Deltas :
        /\ AssignWorld(pos_set(shape, anchors, <<RAdd(shape.m_Pos[1], d[1]), RAdd(shape.m_Pos[2], d[2])>>))
        /\ Record("pos", d)

\* shape.rotations = (0, 0, z)
SetRotations ==
    /\ CanEdit
    /\ \E z \in Angles :
        /\ AssignWorld(rotations_set(shape, anchors, <<0, 0, z>>))
        /\ Record("rotations", z)

\* shape.rotation = z
SetRotation ==
    /\ CanEdit
    /\ \E z \in Angles :
        /\ AssignWorld(rotation_set(shape, anchors, z))
        /\ Record("rotation", z)

\* shape.flipped = b
SetFlipped ==
    /\ CanEdit
    /\ \E b \in BOOLEAN :
        /\ AssignWorld(flipped_set(shape, anchors, b))
        /\ Record("flipped", b)

\* shape.scale = (sx, sy)
SetScale ==
    /\ CanEdit
    /\ \E v \in ScaleInputs :
        /\ AssignWorld(scale_set(shape, anchors, v))
        /\ Record("scale", v)

\* value = shape.points
GetPoints ==
    /\ CanEdit
    /\ UNCHANGED <<shape, anchors>>
    /\ Record("get_points", points(shape))

\* shape.points = shape.points
WriteBackPoints ==
    /\ CanEdit
    /\ shape' = [shape EXCEPT !.m_PointsLocalSpace = points_set(shape, points(shape))]
    /\ UNCHANGED anchors
    /\ Record("points", points(shape))

\* shape.calculate_hitbox(align_center)
CalculateHitbox ==
    /\ CanEdit
    /\ \E a \in BOOLEAN :
        /\ shape' = calculate_hitbox(shape, a)
        /\ UNCHANGED anchors
        /\ Record("calculate_hitbox", a)

\* Mutant of right_click_delete: the guard is `< 3`.
right_click_delete_off_by_one(s, i) ==
    IF Len(points(s)) < 3 THEN s ELSE del_point(s, i)

\* editor: right click on vertex i of the shape while points are drawn; a
\* shape with 3 points or fewer is skipped.
right_click_delete(s, i) ==
    IF Len(points(s)) <= 3 THEN s ELSE del_point(s, i)

RightClickDelete ==
    /\ CanEdit
    /\ \E i \in 1..Len(shape.m_PointsLocalSpace) :
        /\ shape' = right_click_delete(shape, i)
        /\ UNCHANGED anchors
        /\ Record("right_click", i)

\* shape.collidepoint(point): reads shape._hitbox
CollidePoint ==
    /\ CanEdit
    /\ UNCHANGED <<shape, anchors>>
    /\ Record("collidepoint", <<>>)

\* shape.render(display, camera, zoom, args)
Render ==
    /\ CanEdit
    /\ \E camera \in Cameras, zoom \in Zooms :
        /\ shape' = render(shape, camera, zoom)
        /\ UNCHANGED anchors
        /\ Record("render", <<camera, zoom>>)

\* The pixel at which a world point is shown: the inverse of true_mouse_pos.
to_screen(s, world) ==
    <<RMul(s._last_zoom, RAdd(world[1], s._last_camera[1])),
      RNeg(RMul(s._last_zoom, RAdd(world[2], s._last_camera[2])))>>

hit_point(s, d, point) ==
    [world  |-> d,
     point  |-> point,
     raster |-> raster_coords(s, point),
     result |-> collidepoint(s, point)]

\* shape.collidepoint(point), point the pixel of the world point position + d
HitPoint ==
    /\ CanEdit
    /\ UNCHANGED <<shape, anchors>>
    /\ \E d \in QueryOffsets :
        Record("hit_point",
               hit_point(shape, d, to_screen(shape, <<RAdd(shape.m_Pos[1], d[1]),
                                                      RAdd(shape.m_Pos[2], d[2])>>)))

hit_rect(s, d, corner) ==
    [world  |-> d,
     rect   |-> <<corner[1], corner[2], RectSize[1], RectSize[2]>>,
     raster |-> raster_coords(s, corner),
     mask   |-> rect_hitbox_mask(<<corner[1], corner[2], RectSize[1], RectSize[2]>>, s._last_zoom),
     result |-> colliderect(s, <<corner[1], corner[2], RectSize[1], RectSize[2]>>)]

\* shape.colliderect(rect), the selection rectangle's corner on position + d
HitRect ==
    /\ CanEdit
    /\ UNCHANGED <<shape, anchors>>
    /\ \E d \in QueryOffsets :
        Record("hit_rect",
               hit_rect(shape, d, to_screen(shape, <<RAdd(shape.m_Pos[1], d[1]),
                                                     RAdd(shape.m_Pos[2], d[2])>>)))

RecordCall(op, arg, result) ==
    /\ last' = [op |-> op, arg |-> arg, shape |-> shape, anchors |-> anchors]
    /\ prev' = last
    /\ steps' = steps + 1
    /\ call' = [fn |-> op, args |-> arg, result |-> result]
    /\ UNCHANGED <<layout, layout_hist>>

\* shape.scale = (sx, sy), a component of which may be 0
AssignScale ==
    /\ CanEdit
    /\ \E v \in ScaleInputsWithZero :
        /\ AssignWorld(scale_assign(shape, anchors, v))
        /\ RecordCall("scale_assign", v, scale_assign(shape, anchors, v).result)

\* shape.points = shape.points, on any scale
AssignPoints ==
    /\ CanEdit
    /\ shape' = points_assign(shape, points(shape)).shape
    /\ UNCHANGED anchors
    /\ RecordCall("points_assign", points(shape), points_assign(shape, points(shape)).result)

NextScale ==
    \/ AssignScale
    \/ AssignPoints

SpecScale == Init /\ [][NextScale]_vars

\* closest_point(l1, l2, p) on the arguments drawn at the start
ClosestPoint ==
    /\ steps = 0
    /\ call.fn = "closest_point"
    /\ UNCHANGED <<shape, anchors>>
    /\ RecordCall("closest_point", call.args,
                  closest_point(call.args[1], call.args[2], call.args[3]))

SpecClosestPoint == InitClosestPoint /\ [][ClosestPoint]_vars

\* The pixel at which CustomShape.render draws a world point.
render_pixel(s, world) ==
    <<R(RRound(RMul(s._last_zoom, RAdd(world[1], s._last_camera[1])))),
      R(RRound(RMul(s._last_zoom, RNeg(RAdd(world[2], s._last_camera[2])))))>>

\* The world-space centre of the bounding rect: position - center offset.
hitbox_world_center(s) ==
    <<RSub(s.m_Pos[1], s._center_offset[1]), RSub(s.m_Pos[2], s._center_offset[2])>>

\* collidepoint and colliderect at the pixel where the centre of the
\* shape's bounding rect is drawn
HitCentre ==
    /\ CanEdit
    /\ UNCHANGED <<shape, anchors>>
    /\ Record("hit_centre",
              [point |-> hit_point(shape, RNegPair(shape._center_offset),
                                   render_pixel(shape, hitbox_world_center(shape))),
               rect  |-> hit_rect(shape, RNegPair(shape._center_offset),
                                  render_pixel(shape, hitbox_world_center(shape)))])

NextQuery ==
    \/ SetPos
    \/ Render
    \/ HitPoint
    \/ HitRect
    \/ HitCentre

SpecQuery == InitQuery /\ [][NextQuery]_vars

\* editor: the edit window's values are applied to the selected shape:
\* pos, scale, rotations, flipped, color, then calculate_hitbox().
edit_hitbox(w) ==
    [shape   |-> calculate_hitbox(color_set(w.shape, color_get(w.shape)), FALSE),
     anchors |-> w.anchors]

edit_flipped(w, e) == edit_hitbox(flipped_set(w.shape, w.anchors, e[3]))

edit_rotations(w, e) == edit_flipped(rotations_set(w.shape, w.anchors, <<0, 0, e[2]>>), e)

edit_scale(w, e) ==
    edit_rotations(scale_set(w.shape, w.anchors, <<e[1][1], e[1][2], w.shape.m_Scale[3]>>), e)

edit_apply(s, heap, e) == edit_scale(pos_set(s, heap, s.m_Pos), e)

EditApply ==
    /\ CanEdit
    /\ \E e \in EditInputs :
        /\ AssignWorld(edit_apply(shape, anchors, e))
        /\ Record("edit_apply", e)

---------------------------------------------------------------------------
(* The editor's handlers on the level *)

\* selectable_objects(): chain(custom_shapes, pillars)
selectable_objects(lay) == lay.custom_shapes._objlist \o lay.pillars._objlist

\* [o for o in selectable_objects() if o.selected]
selected_objects(lay) ==
    SelectSeq(selectable_objects(lay), LAMBDA o : o \in lay.selected)

\* type(obj) is g.CustomShape
is_shape(lay, o) == o \in DOMAIN lay.shapes

\* The dictionaries of the custom shapes, by object.
shape_dicts(lay) == [o \in DOMAIN lay.shapes |-> dictionary(lay.shapes[o])]

\* anchors.remove(anchor); an exception ends the handler and the main loop.
remove_anchor(lay, a) ==
    IF lay.raised # "none" THEN lay
    ELSE IF remove_raises(lay.anchors, lay.anchor_nodes, a)
    THEN [lay EXCEPT !.raised = "ValueError"]
    ELSE [lay EXCEPT !.anchors = LayoutList_remove(@, lay.anchor_nodes, a)]

\* for anchor in [a for a in anchors]: if anchor.id == dyn_anc_id: remove it
RECURSIVE remove_anchors_named(_, _, _, _)
remove_anchors_named(lay, snapshot, k, guid) ==
    IF k > Len(snapshot) THEN lay
    ELSE remove_anchors_named(
            IF lay.anchor_nodes[snapshot[k]].m_Guid = guid
            THEN remove_anchor(lay, snapshot[k]) ELSE lay,
            snapshot, k + 1, guid)

\* for dyn_anc_id in obj.dynamic_anchor_ids: ...
RECURSIVE delete_anchors_of(_, _, _)
delete_anchors_of(lay, ids, i) ==
    IF i > Len(ids) THEN lay
    ELSE delete_anchors_of(remove_anchors_named(lay, lay.anchors._objlist, 1, ids[i]),
                           ids, i + 1)

\* object_lists[obj.list_name].remove(obj)
remove_object(lay, o) ==
    IF lay.raised # "none" THEN lay
    ELSE IF is_shape(lay, o)
    THEN IF remove_raises(lay.custom_shapes, shape_dicts(lay), o)
         THEN [lay EXCEPT !.raised = "ValueError"]
         ELSE [lay EXCEPT !.custom_shapes = LayoutList_remove(@, shape_dicts(lay), o)]
    ELSE IF remove_raises(lay.pillars, lay.pillar_objs, o)
         THEN [lay EXCEPT !.raised = "ValueError"]
         ELSE [lay EXCEPT !.pillars = LayoutList_remove(@, lay.pillar_objs, o)]

\* The body of the K_d loop for one selected object.
delete_object(lay, o) ==
    IF is_shape(lay, o)
    THEN remove_object(delete_anchors_of(lay, lay.shapes[o].m_DynamicAnchorGuids, 1), o)
    ELSE remove_object(lay, o)

\* K_d: for obj in [o for o in selectable_objects() if o.selected]: ...
RECURSIVE delete_selected(_, _, _)
delete_selected(lay, objs, k) ==
    IF k > Len(objs) THEN lay
    ELSE delete_selected(delete_object(lay, objs[k]), objs, k + 1)

\* uuid4(): the n-th identifier handed out.  A version-4 UUID is 122 random
\* bits; it is taken to differ from every identifier in use.
FreshGuids == <<"u1", "u2", "u3", "u4", "u5", "u6", "u7", "u8", "u9", "u10", "u11", "u12">>

uuid4(n) == FreshGuids[n]

SetMax(S) == CHOOSE m \in S : \A x \in S : x <= m

\* A new object / a new anchor dictionary is none of the existing ones.
new_object(lay) == SetMax(DOMAIN lay.shapes \cup DOMAIN lay.pillar_objs) + 1

new_anchor_ref(lay) == SetMax(DOMAIN lay.anchor_nodes) + 1

\* CustomShape(dictionary): a fresh object around the dictionary, bound to
\* no anchor (anchorsList is None), with its hitbox calculated.
custom_shape_init(d) ==
    calculate_hitbox(d @@ [anchors              |-> <<>>,
                           selected_point_index |-> 0,
                           _center_offset       |-> <<R(0), R(0)>>,
                           _last_zoom           |-> R(1),
                           _last_camera         |-> <<R(0), R(0)>>,
                           _hitbox              |-> <<>>],
                     FALSE)

\* [a for a in anchors if a.id == guid]
anchors_named(lay, guid) ==
    SelectSeq(lay.anchors._objlist, LAMBDA a : lay.anchor_nodes[a].m_Guid = guid)

\* The anchors the K_c loops copy, in order: for each identifier of the old
\* shape, every anchor of the level that carries it.
RECURSIVE anchors_to_copy(_, _, _)
anchors_to_copy(lay, ids, i) ==
    IF i > Len(ids) THEN <<>>
    ELSE anchors_named(lay, ids[i]) \o anchors_to_copy(lay, ids, i + 1)

\* new_anchor = deepcopy(anchor); new_anchor.id = str(uuid4()): the anchor
\* dictionaries with the copies added under the references first, first+1, ...
copy_anchor_nodes(lay, olds, first) ==
    [r \in DOMAIN lay.anchor_nodes \cup {first + k - 1 : k \in 1..Len(olds)} |->
        IF r \in DOMAIN lay.anchor_nodes THEN lay.anchor_nodes[r]
        ELSE [lay.anchor_nodes[olds[r - first + 1]]
                 EXCEPT !.m_Guid = uuid4(lay.uuids + r - first + 1)]]

\* Mutant of copy_bind: the duplicate is bound to the anchors of its source.
copy_bind_shared(new_obj, nodes, olds, new_refs) ==
    [new_obj EXCEPT !.m_DynamicAnchorGuids = [k \in 1..Len(olds) |-> nodes[olds[k]].m_Guid],
                    !.anchors = olds]

\* new_obj.dynamic_anchor_ids = [a.id for a in new_anchors]
\* new_obj.anchors = new_anchors
copy_bind(new_obj, nodes, olds, new_refs) ==
    [new_obj EXCEPT !.m_DynamicAnchorGuids = [k \in 1..Len(new_refs) |-> nodes[new_refs[k]].m_Guid],
                    !.anchors = new_refs]

\* Mutant of copy_offset: the duplicate is left where its source is.
copy_offset_none(pos) == <<pos[1], pos[2]>>

\* (new_obj.pos[0] + 1, new_obj.pos[1] - 1)
copy_offset(pos) == <<RAdd(pos[1], R(1)), RSub(pos[2], R(1))>>

\* The level once the moved duplicate and its anchors are in place.
copy_place(lay, n, moved, new_refs) ==
    [lay EXCEPT !.shapes        = (n :> moved.shape) @@ @,
                !.anchor_nodes  = moved.anchors,
                !.anchors       = LayoutList_extend(@, new_refs),
                !.custom_shapes = LayoutList_append(@, n),
                !.uuids         = @ + Len(new_refs)]

copy_move(lay, n, bound, nodes, new_refs) ==
    copy_place(lay, n, pos_set(bound, nodes, copy_offset(bound.m_Pos)), new_refs)

copy_anchors(lay, n, new_obj, olds, new_refs) ==
    copy_move(lay, n,
              copy_bind(new_obj, copy_anchor_nodes(lay, olds, new_anchor_ref(lay)), olds, new_refs),
              copy_anchor_nodes(lay, olds, new_anchor_ref(lay)), new_refs)

copy_shape(lay, n, new_obj, olds) ==
    copy_anchors(lay, n, new_obj, olds,
                 [k \in 1..Len(olds) |-> new_anchor_ref(lay) + k - 1])

copy_pillar(lay, n, old) ==
    [lay EXCEPT !.pillar_objs = (n :> [lay.pillar_objs[old] EXCEPT
                                          !.m_Pos = layout_pos_set(@, copy_offset(@))]) @@ @,
                !.pillars     = LayoutList_append(@, n)]

\* old_obj.selected = False; new_obj.selected = True
copy_select(lay, old, n) == [lay EXCEPT !.selected = (@ \ {old}) \cup {n}]

\* The body of the K_c loop for one selected object.
copy_object(lay, old) ==
    IF is_shape(lay, old)
    THEN copy_select(copy_shape(lay, new_object(lay),
                                custom_shape_init(dictionary(lay.shapes[old])),
                                anchors_to_copy(lay, lay.shapes[old].m_DynamicAnchorGuids, 1)),
                     old, new_object(lay))
    ELSE copy_select(copy_pillar(lay, new_object(lay), old), old, new_object(lay))

\* K_c: for old_obj in [o for o in selectable_objects() if o.selected]: ...
RECURSIVE copy_selected(_, _, _)
copy_selected(lay, objs, k) ==
    IF k > Len(objs) THEN lay
    ELSE copy_selected(copy_object(lay, objs[k]), objs, k + 1)

\* The body of the move loops: obj.pos = (obj.pos[0] + dx, obj.pos[1] + dy)
move_object(lay, o, d) ==
    IF is_shape(lay, o)
    THEN LET w == pos_set(lay.shapes[o], lay.anchor_nodes,
                          <<RAdd(lay.shapes[o].m_Pos[1], d[1]), RAdd(lay.shapes[o].m_Pos[2], d[2])>>)
         IN  [lay EXCEPT !.shapes[o] = w.shape, !.anchor_nodes = w.anchors]
    ELSE [lay EXCEPT !.pillar_objs[o].m_Pos =
             layout_pos_set(@, <<RAdd(@[1], d[1]), RAdd(@[2], d[2])>>)]

\* Move selection with keys / with mouse: for obj in hl_objs: obj.pos = ...
RECURSIVE move_selected(_, _, _, _)
move_selected(lay, objs, k, d) ==
    IF k > Len(objs) THEN lay
    ELSE move_selected(move_object(lay, objs[k], d), objs, k + 1, d)

\* The edit window's values applied to the one selected object.
edit_selected(lay, o, e) ==
    IF is_shape(lay, o)
    THEN LET w == edit_apply(lay.shapes[o], lay.anchor_nodes, e)
         IN  [lay EXCEPT !.shapes[o] = w.shape, !.anchor_nodes = w.anchors]
    ELSE [lay EXCEPT !.pillar_objs[o].m_Pos = layout_pos_set(@, @)]

\* The arrow keys: move_x, move_y.
KeyMoves == {<<R(-1), R(0)>>, <<R(1), R(0)>>, <<R(0), R(1)>>, <<R(0), R(-1)>>}

CanHandle == CanEdit /\ layout.raised = "none"

RecordLayout(op, arg) ==
    /\ last' = [op |-> op, arg |-> arg, shape |-> shape, anchors |-> anchors]
    /\ prev' = last
    /\ steps' = steps + 1
    /\ layout_hist' = [last |-> layout, prev |-> layout_hist.last]
    /\ UNCHANGED <<shape, anchors, call>>

\* K_d: delete selected
DeleteSelected ==
    /\ CanHandle
    /\ layout' = delete_selected(layout, selected_objects(layout), 1)
    /\ RecordLayout("delete", <<>>)

\* K_c: copy selected
CopySelected ==
    /\ CanHandle
    /\ layout' = copy_selected(layout, selected_objects(layout), 1)
    /\ RecordLayout("copy", <<>>)

\* An arrow key: move selection with keys
MoveSelected ==
    /\ CanHandle
    /\ \E d \in KeyMoves :
        /\ layout' = move_selected(layout, selected_objects(layout), 1, d)
        /\ RecordLayout("move", d)

\* The edit window's apply, open on the one selected object
EditSelected ==
    /\ CanHandle
    /\ Len(selected_objects(layout)) = 1
    /\ \E e \in EditInputs :
        /\ layout' = edit_selected(layout, selected_objects(layout)[1], e)
        /\ RecordLayout("edit", e)

NextLayout ==
    \/ DeleteSelected
    \/ CopySelected
    \/ MoveSelected
    \/ EditSelected

SpecLayout == InitLayout /\ [][NextLayout]_vars

Next ==
    \/ SetPos
    \/ SetRotations
    \/ SetRotation
    \/ SetFlipped
    \/ SetScale
    \/ GetPoints
    \/ WriteBackPoints
    \/ CalculateHitbox
    \/ RightClickDelete
    \/ CollidePoint
    \/ EditApply

Spec == Init /\ [][Next]_vars

\* Only the position, rotation / rotations, flipped and scale setters.
NextSetters ==
    \/ SetPos
    \/ SetRotations
    \/ SetRotation
    \/ SetFlipped
    \/ SetScale

SpecSetters == Init /\ [][NextSetters]_vars

---------------------------------------------------------------------------
(* Vocabulary of the properties *)

Pins(s) == s.m_StaticPins

PinXY(pin) == <<pin.x, pin.y>>

XY(p) == <<p[1], p[2]>>

Range(seq) == {seq[i] : i \in 1..Len(seq)}

\* The anchors bound to the shape: those whose identifier the shape lists.
BoundRefs(s, heap) ==
    {r \in DOMAIN heap : heap[r].m_Guid \in Range(s.m_DynamicAnchorGuids)}

AbsVertices(s) == [i \in 1..Len(s.m_PointsLocalSpace) |-> AbsVertex(s, i)]

\* Every pin and every anchor is as it was in (s0, heap0), but for the x, y
\* of the pins, which are pinXY[i], and of the bound anchors, anchorXY[r].
AttachmentsAre(s0, heap0, pinXY, anchorXY) ==
    /\ Len(Pins(shape)) = Len(Pins(s0))
    /\ \A i \in 1..Len(Pins(s0)) :
          /\ PinXY(Pins(shape)[i]) = pinXY[i]
          /\ Pins(shape)[i].z = Pins(s0)[i].z
    /\ DOMAIN anchors = DOMAIN heap0
    /\ \A r \in DOMAIN heap0 :
          /\ anchors[r].m_Guid = heap0[r].m_Guid
          /\ anchors[r].m_Pos[3] = heap0[r].m_Pos[3]
          /\ XY(anchors[r].m_Pos) = IF r \in BoundRefs(s0, heap0)
                                    THEN anchorXY[r]
                                    ELSE XY(heap0[r].m_Pos)

PinsXY(s) == [i \in 1..Len(Pins(s)) |-> PinXY(Pins(s)[i])]

AnchorsXY(heap) == [r \in DOMAIN heap |-> XY(heap[r].m_Pos)]

AttachmentsKept(s0, heap0) == AttachmentsAre(s0, heap0, PinsXY(s0), AnchorsXY(heap0))

\* The pins and anchors before the last operation.
LastPinsXY == PinsXY(last.shape)

LastAnchorsXY == AnchorsXY(last.anchors)

\* p turned counterclockwise by d degrees (a multiple of 90) about c,
\* written out per quadrant.
TurnedAbout(p, c, d) ==
    LET m  == d % 360
        dx == RSub(p[1], c[1])
        dy == RSub(p[2], c[2])
    IN  CASE m = 0   -> <<p[1], p[2]>>
          [] m = 90  -> <<RSub(c[1], dy), RAdd(c[2], dx)>>
          [] m = 180 -> <<RSub(c[1], dx), RSub(c[2], dy)>>
          [] m = 270 -> <<RAdd(c[1], dy), RSub(c[2], dx)>>

\* c + R(t) diag(rx, ry) R(-t) (p - c) for t a multiple of 90 degrees: at
\* 0 and 180 the local axes are the world axes, at 90 and 270 they swap.
ScaledInLocalFrame(p, c, t, rx, ry) ==
    LET dx == RSub(p[1], c[1])
        dy == RSub(p[2], c[2])
    IN  IF t % 180 = 0
        THEN <<RAdd(c[1], RMul(rx, dx)), RAdd(c[2], RMul(ry, dy))>>
        ELSE <<RAdd(c[1], RMul(ry, dx)), RAdd(c[2], RMul(rx, dy))>>

---------------------------------------------------------------------------
(* C1: attachment consistency.  Pin 1 starts on vertex 1 and the bound     *)
(* anchor on vertex 2; the claim is that after any sequence of position,   *)
(* rotation, scale and flipped assignments each is still on its vertex.    *)

\* C1: a pin or bound anchor that coincides with the absolute position of
\* vertex i still coincides with it after any sequence of setter calls.
C1_AttachmentsStayOnVertices ==
    /\ PinXY(Pins(shape)[1]) = AbsVertex(shape, 1)
    /\ XY(anchors[1].m_Pos) = AbsVertex(shape, 2)

---------------------------------------------------------------------------
(* C2: rigid attachment under translation *)

C2_Shift(p) == <<RAdd(p[1], last.arg[1]), RAdd(p[2], last.arg[2])>>

\* C2: after position := position + d every static pin and every bound
\* anchor has moved by exactly d in x and y, nothing else about them has
\* changed, and unbound anchors have not moved.
C2_TranslationMovesAttachments ==
    last.op = "pos" =>
        /\ XY(shape.m_Pos) = C2_Shift(XY(last.shape.m_Pos))
        /\ AttachmentsAre(last.shape, last.anchors,
                          [i \in DOMAIN LastPinsXY |-> C2_Shift(LastPinsXY[i])],
                          [r \in DOMAIN LastAnchorsXY |-> C2_Shift(LastAnchorsXY[r])])

\* The scenario of the specification: position (5,5) -> (7,5) takes the pin
\* at (5,1) to (7,1) and the bound anchor along.
C2_Witness ==
    /\ last.op = "pos"
    /\ last.arg = <<R(2), R(0)>>
    /\ XY(last.shape.m_Pos) = <<R(5), R(5)>>
    /\ XY(shape.m_Pos) = <<R(7), R(5)>>
    /\ PinXY(Pins(last.shape)[2]) = <<R(5), R(1)>>
    /\ PinXY(Pins(shape)[2]) = <<R(7), R(1)>>
    /\ anchors[1].m_Pos # last.anchors[1].m_Pos

---------------------------------------------------------------------------
(* C3: rigid attachment under rotation *)

C3_Delta == last.arg - last.shape.m_RotationDegrees

C3_Turn(p) == TurnedAbout(p, last.shape.m_Pos, C3_Delta)

\* C3: after the Z rotation changes by d (|d| > 1e-6) through rotation or
\* rotations, every pin and bound anchor is its old position rotated by d
\* about the shape's position, which itself is unchanged.
C3_RotationTurnsAttachments ==
    (last.op \in {"rotation", "rotations"} /\ C3_Delta # 0) =>
        /\ shape.m_Pos = last.shape.m_Pos
        /\ shape.m_RotationDegrees = last.arg
        /\ AttachmentsAre(last.shape, last.anchors,
                          [i \in DOMAIN LastPinsXY |-> C3_Turn(LastPinsXY[i])],
                          [r \in DOMAIN LastAnchorsXY |-> C3_Turn(LastAnchorsXY[r])])

C3_Witness ==
    /\ last.op = "rotation"
    /\ C3_Delta = 90
    /\ prev.op = "rotations"
    /\ Pins(shape) # Pins(last.shape)
    /\ anchors[1].m_Pos # last.anchors[1].m_Pos

---------------------------------------------------------------------------
(* C4: the scale setter and the shape's local frame *)

C4_Ratio == <<RDiv(last.arg[1], last.shape.m_Scale[1]),
              RDiv(last.arg[2], last.shape.m_Scale[2])>>

C4_Rescale(p) ==
    ScaledInLocalFrame(p, last.shape.m_Pos, last.shape.m_RotationDegrees,
                       C4_Ratio[1], C4_Ratio[2])

\* C4: when the scale setter changes the scale by ratios (rx, ry), every
\* pin and bound anchor p becomes position + R(t) diag(rx, ry) R(-t) (p -
\* position), t the shape's Z rotation.
C4_ScaleInLocalFrame ==
    (last.op = "scale" /\ C4_Ratio # <<R(1), R(1)>>) =>
        AttachmentsAre(last.shape, last.anchors,
                       [i \in DOMAIN LastPinsXY |-> C4_Rescale(LastPinsXY[i])],
                       [r \in DOMAIN LastAnchorsXY |-> C4_Rescale(LastAnchorsXY[r])])

---------------------------------------------------------------------------
(* C5: scale composition *)

RInv(a) == RDiv(R(1), a)

\* The last two operations were scale := (sx, sy), then scale := (1/sx, 1/sy).
C5_ScaledThenInverse ==
    /\ prev.op = "scale"
    /\ last.op = "scale"
    /\ last.arg = <<RInv(prev.arg[1]), RInv(prev.arg[2])>>

C5_Restored ==
    /\ AttachmentsKept(prev.shape, prev.anchors)
    /\ shape.m_PointsLocalSpace = prev.shape.m_PointsLocalSpace

\* C5 as claimed: from any shape, scale := (sx, sy) then scale := (1/sx,
\* 1/sy) leaves every pin, bound anchor and local point where it was.
C5_ScaleInverseRestores == C5_ScaledThenInverse => C5_Restored

\* C5 as amended: it does so when the scale before the two assignments was
\* (1/sx, 1/sy), that is when the second assignment restores the old scale;
\* and the local points are unchanged whatever the old scale was.
C5_ScaleBackRestores ==
    C5_ScaledThenInverse =>
        /\ shape.m_PointsLocalSpace = prev.shape.m_PointsLocalSpace
        /\ XY(prev.shape.m_Scale) = last.arg => C5_Restored

C5_Witness ==
    /\ C5_ScaledThenInverse
    /\ XY(prev.shape.m_Scale) = last.arg
    /\ Pins(last.shape) # Pins(prev.shape)
    /\ last.anchors # prev.anchors
    /\ C5_Restored

---------------------------------------------------------------------------
(* C6: flip involution *)

C6_FlippedTwice ==
    /\ prev.op = "flipped"
    /\ prev.arg = ~prev.shape.m_Flipped
    /\ last.op = "flipped"
    /\ last.arg = ~last.shape.m_Flipped

\* C6: flipped := not flipped twice in a row returns every pin, bound
\* anchor and local point to where it was; flipped := flipped changes no
\* pin or anchor.
C6_FlipInvolution ==
    /\ C6_FlippedTwice =>
          /\ AttachmentsKept(prev.shape, prev.anchors)
          /\ shape.m_PointsLocalSpace = prev.shape.m_PointsLocalSpace
          /\ points(shape) = points(prev.shape)
    /\ (last.op = "flipped" /\ last.arg = last.shape.m_Flipped) =>
          AttachmentsKept(last.shape, last.anchors)

C6_Witness ==
    /\ C6_FlippedTwice
    /\ shape.m_RotationDegrees = 90
    /\ Pins(last.shape) # Pins(prev.shape)
    /\ last.anchors # prev.anchors
    /\ points(last.shape) # points(prev.shape)

---------------------------------------------------------------------------
(* C7: points = points *)

---------------------------------------------------------------------------
(* C8: the points getter *)

\* Scale component-wise, negate x if flipped, rotate by the Z rotation (a
\* multiple of 90 degrees, written out per quadrant); position is not added.
C8_Expected(s, i) ==
    LET p  == s.m_PointsLocalSpace[i]
        sx == RMul(p[1], s.m_Scale[1])
        sy == RMul(p[2], s.m_Scale[2])
        fx == IF s.m_Flipped THEN RNeg(sx) ELSE sx
        m  == s.m_RotationDegrees % 360
    IN  CASE m = 0   -> <<fx, sy>>
          [] m = 90  -> <<RNeg(sy), fx>>
          [] m = 180 -> <<RNeg(fx), RNeg(sy)>>
          [] m = 270 -> <<sy, RNeg(fx)>>

\* C8: the getter returns, for each local point in order, the point scaled,
\* then flipped, then rotated; with scale (1,1), rotation 0 and flipped
\* false it returns the local points; it changes no stored state.
C8_GetterFormula ==
    last.op = "get_points" =>
        /\ Len(last.arg) = Len(shape.m_PointsLocalSpace)
        /\ \A i \in 1..Len(last.arg) : last.arg[i] = C8_Expected(shape, i)
        /\ (XY(shape.m_Scale) = <<R(1), R(1)>> /\ shape.m_RotationDegrees = 0
              /\ ~shape.m_Flipped) => last.arg = shape.m_PointsLocalSpace
        /\ shape = last.shape
        /\ anchors = last.anchors

C8_Witness ==
    /\ last.op = "get_points"
    /\ shape.m_Flipped
    /\ shape.m_RotationDegrees = 90
    /\ XY(shape.m_Scale) = <<Half, R(1)>>
    /\ last.arg # shape.m_PointsLocalSpace

---------------------------------------------------------------------------
(* C9: no stale hit mask *)

\* C9: whenever collidepoint is evaluated, the mask it reads was built from
\* the points the shape has now.
C9_NoStaleMask ==
    last.op = "collidepoint" => shape._hitbox.points_base = points(shape)

---------------------------------------------------------------------------
(* C10: minimum-vertex guard *)

C10_Without(seq, i) ==
    [k \in 1..(Len(seq) - 1) |-> IF k < i THEN seq[k] ELSE seq[k + 1]]

\* C10: a deletion on a shape with exactly 3 points is refused and the shape
\* keeps its 3 points; on a shape with more than 3 points it removes exactly
\* the addressed vertex; so the shape never has fewer than 3 points.
C10_MinimumVertexGuard ==
    /\ Len(shape.m_PointsLocalSpace) >= 3
    /\ last.op = "right_click" =>
          IF Len(last.shape.m_PointsLocalSpace) = 3
          THEN shape = last.shape
          ELSE AbsVertices(shape) = C10_Without(AbsVertices(last.shape), last.arg)

C10_Witness ==
    /\ prev.op = "right_click"
    /\ Len(prev.shape.m_PointsLocalSpace) = 4
    /\ last.op = "right_click"
    /\ Len(last.shape.m_PointsLocalSpace) = 3
    /\ Len(shape.m_PointsLocalSpace) = 3

---------------------------------------------------------------------------
(* Vocabulary of the properties about the level *)

\* The level before the last operation, and before the one before it.
Before == layout_hist.last

BeforePrev == layout_hist.prev

\* The objects of the level that are in a list of the document or a view.
InView(lay) ==
    Range(lay.custom_shapes._objlist) \cup Range(lay.pillars._objlist)

InDocument(lay) ==
    Range(lay.custom_shapes._dictlist) \cup Range(lay.pillars._dictlist)

ShapesInView(lay) == Range(lay.custom_shapes._objlist)

\* The objects the last handler looped over.
Handled == Range(selected_objects(Before))

\* The shapes the last K_c made, and the one it made from the source o: the
\* k-th selected object yields the k-th new object.
Duplicates == ShapesInView(layout) \ DOMAIN Before.shapes

DuplicateOf(o) ==
    LET objs == selected_objects(Before)
        k    == CHOOSE j \in 1..Len(objs) : objs[j] = o
    IN  SetMax(DOMAIN Before.shapes \cup DOMAIN Before.pillar_objs) + k

\* The anchors of a shape that the anchors collection holds, in binding order.
PresentAnchors(lay, s) ==
    SelectSeq(s.anchors, LAMBDA r : r \in Range(lay.anchors._objlist))

GuidsIn(lay) == {lay.anchor_nodes[r].m_Guid : r \in DOMAIN lay.anchor_nodes}

Offset(p, d) == <<RAdd(p[1], d[1]), RAdd(p[2], d[2])>>

DuplicateOffset == <<R(1), R(-1)>>

---------------------------------------------------------------------------
(* C11: duplication independence *)

\* The last operation was an edit of the duplicates the previous one made.
C11_DuplicateEdited ==
    /\ prev.op = "copy"
    /\ last.op \in {"move", "edit"}

C11_Sources == Range(selected_objects(BeforePrev)) \cap DOMAIN BeforePrev.shapes

\* C11: after K_c every anchor bound to a duplicate is a new record whose
\* identifier no anchor and no shape of the level had before, the
\* duplicate's identifier list names exactly its new anchors, and a later
\* move or edit of the duplicate changes no field, pin or anchor of the source.
C11_DuplicationIndependence ==
    /\ last.op = "copy" =>
          \A n \in Duplicates :
              /\ \A k \in 1..Len(layout.shapes[n].anchors) :
                    LET r == layout.shapes[n].anchors[k]
                    IN  /\ r \notin DOMAIN Before.anchor_nodes
                        /\ r \in Range(layout.anchors._objlist)
                        /\ layout.anchor_nodes[r].m_Guid \notin GuidsIn(Before)
                        /\ \A o \in DOMAIN Before.shapes :
                              layout.anchor_nodes[r].m_Guid
                                  \notin Range(Before.shapes[o].m_DynamicAnchorGuids)
              /\ layout.shapes[n].m_DynamicAnchorGuids =
                    [k \in 1..Len(layout.shapes[n].anchors) |->
                        layout.anchor_nodes[layout.shapes[n].anchors[k]].m_Guid]
    /\ C11_DuplicateEdited =>
          \A o \in C11_Sources :
              /\ layout.shapes[o] = Before.shapes[o]
              /\ \A r \in Range(Before.shapes[o].anchors) :
                    layout.anchor_nodes[r] = Before.anchor_nodes[r]

\* Shape A, bound to anchor g1, was duplicated and the duplicate's scale,
\* rotation and flip edited, which moved the duplicate's anchor.
C11_Witness ==
    /\ C11_DuplicateEdited
    /\ last.op = "edit"
    /\ 1 \in C11_Sources
    /\ Len(BeforePrev.shapes[1].anchors) = 1
    /\ \E n \in ShapesInView(layout) \ DOMAIN BeforePrev.shapes :
          /\ Len(layout.shapes[n].anchors) = 1
          /\ layout.anchor_nodes[layout.shapes[n].anchors[1]]
                # Before.anchor_nodes[layout.shapes[n].anchors[1]]

---------------------------------------------------------------------------
(* C12: the duplicate offset *)

\* C12: right after K_c the duplicate of each selected shape is at the
\* source's position + (1, -1), its pins and bound anchors are the source's
\* pins and anchors + (1, -1), and the source's position, pins, anchor
\* identifiers and anchor positions are as before.
C12_DuplicateOffsetRigid ==
    last.op = "copy" =>
        \A o \in Handled \cap DOMAIN Before.shapes :
            LET src   == Before.shapes[o]
                dup   == layout.shapes[DuplicateOf(o)]
                olds  == PresentAnchors(Before, src)
            IN  /\ DuplicateOf(o) \in Duplicates
                /\ XY(dup.m_Pos) = Offset(XY(src.m_Pos), DuplicateOffset)
                /\ Len(Pins(dup)) = Len(Pins(src))
                /\ \A i \in 1..Len(Pins(src)) :
                      PinXY(Pins(dup)[i]) = Offset(PinXY(Pins(src)[i]), DuplicateOffset)
                /\ Len(dup.anchors) = Len(olds)
                /\ \A k \in 1..Len(olds) :
                      XY(layout.anchor_nodes[dup.anchors[k]].m_Pos) =
                          Offset(XY(Before.anchor_nodes[olds[k]].m_Pos), DuplicateOffset)
                /\ dictionary(layout.shapes[o]) = dictionary(src)
                /\ layout.shapes[o].anchors = src.anchors
                /\ \A r \in Range(src.anchors) :
                      layout.anchor_nodes[r] = Before.anchor_nodes[r]

\* Shape A at (5,5) with its anchor on (7,5) was duplicated: the duplicate is
\* at (6,4) and its anchor on (8,4).
C12_Witness ==
    /\ last.op = "copy"
    /\ 1 \in Handled
    /\ XY(Before.shapes[1].m_Pos) = <<R(5), R(5)>>
    /\ XY(Before.anchor_nodes[1].m_Pos) = <<R(7), R(5)>>
    /\ XY(layout.shapes[DuplicateOf(1)].m_Pos) = <<R(6), R(4)>>
    /\ Len(layout.shapes[DuplicateOf(1)].anchors) = 1
    /\ XY(layout.anchor_nodes[layout.shapes[DuplicateOf(1)].anchors[1]].m_Pos) = <<R(8), R(4)>>

---------------------------------------------------------------------------
(* C13: delete selected *)

\* The anchors of the collection that only handled shapes reference.
C13_OnlyReferencedByDeleted ==
    {r \in Range(Before.anchors._objlist) :
        /\ \E o \in Handled \cap DOMAIN Before.shapes :
              Before.anchor_nodes[r].m_Guid \in Range(Before.shapes[o].m_DynamicAnchorGuids)
        /\ \A o \in ShapesInView(Before) \ Handled :
              Before.anchor_nodes[r].m_Guid \notin Range(Before.shapes[o].m_DynamicAnchorGuids)}

\* C13: K_d removes every selected object from its collection (the document
\* list and the view), removes every anchor only the deleted shapes
\* referenced, and removes no unselected shape or pillar.
C13_DeleteSelected ==
    last.op = "delete" =>
        /\ layout.raised = "none"
        /\ \A o \in Handled : o \notin InView(layout) /\ o \notin InDocument(layout)
        /\ \A r \in C13_OnlyReferencedByDeleted :
              /\ r \notin Range(layout.anchors._objlist)
              /\ r \notin Range(layout.anchors._dictlist)
        /\ \A o \in InView(Before) \ Handled : o \in InView(layout)
        /\ \A o \in InDocument(Before) \ Handled : o \in InDocument(layout)

---------------------------------------------------------------------------
(* C14: document / view synchronisation *)

Synchronised(l) ==
    /\ Len(l._dictlist) = Len(l._objlist)
    /\ \A i \in 1..Len(l._objlist) : l._dictlist[i] = l._objlist[i]

\* C14: in every LayoutList the document list and the view have the same
\* length and the i-th object wraps the i-th dictionary.
C14_DocumentViewSynchronised ==
    /\ Synchronised(layout.custom_shapes)
    /\ Synchronised(layout.pillars)
    /\ Synchronised(layout.anchors)

---------------------------------------------------------------------------
(* C15: mask containment *)

\* The shape's points are the corners of a square of side 2 about its position.
C15_CentredSquare ==
    /\ Len(points(shape)) = 4
    /\ Range(points(shape)) =
          {<<R(-1), R(-1)>>, <<R(1), R(-1)>>, <<R(1), R(1)>>, <<R(-1), R(1)>>}

\* The world point position + d is at least 10 units outside the bounding box.
C15_FarOutside(d) ==
    \/ RLe(R(11), RAbs(d[1]))
    \/ RLe(R(11), RAbs(d[2]))

\* C15: on a square of side 2 centred on the shape's position, whatever the
\* position, zoom and camera, collidepoint is true at the pixel of the
\* centre and false at the pixel of a point 10 units outside the bounding box.
C15_MaskContainment ==
    (last.op = "hit_point" /\ C15_CentredSquare) =>
        /\ last.arg.world = <<R(0), R(0)>> => last.arg.result = Returned(TRUE)
        /\ C15_FarOutside(last.arg.world) => last.arg.result = Returned(FALSE)

\* The square, moved or rendered at zoom 40 with the camera at (3,-2), is
\* hit at its centre.
C15_Witness ==
    /\ last.op = "hit_point"
    /\ C15_CentredSquare
    /\ last.arg.world = <<R(0), R(0)>>
    /\ last.arg.result = Returned(TRUE)
    /\ prev.op = "render"
    /\ shape._last_zoom = R(40)
    /\ shape._last_camera = <<R(3), R(-2)>>

---------------------------------------------------------------------------
(* C16: out-of-range queries *)

C16_OutsideMask(c) ==
    \/ c[1] < 0 \/ c[1] >= mask_get_size(shape._hitbox)[1]
    \/ c[2] < 0 \/ c[2] >= mask_get_size(shape._hitbox)[2]

C16_RectOutsideMask(c, mask) ==
    \/ c[1] + mask[1] <= 0 \/ c[1] >= mask_get_size(shape._hitbox)[1]
    \/ c[2] + mask[2] <= 0 \/ c[2] >= mask_get_size(shape._hitbox)[2]

\* C16: a point whose raster coordinate is outside the mask, negative ones
\* included, makes collidepoint return false, raise nothing and change
\* nothing; a rectangle wholly outside the mask makes colliderect return false.
C16_OutOfRangeIsMiss ==
    /\ (last.op = "hit_point" /\ C16_OutsideMask(last.arg.raster)) =>
          /\ last.arg.result = Returned(FALSE)
          /\ shape = last.shape
          /\ anchors = last.anchors
    /\ (last.op = "hit_rect" /\ C16_RectOutsideMask(last.arg.raster, last.arg.mask)) =>
          /\ last.arg.result = Returned(FALSE)
          /\ shape = last.shape
          /\ anchors = last.anchors

\* A point left of and a rectangle above the mask, both with a negative
\* raster coordinate.
C16_Witness ==
    /\ prev.op = "hit_point"
    /\ prev.arg.raster[1] < 0
    /\ prev.arg.result = Returned(FALSE)
    /\ last.op = "hit_rect"
    /\ last.arg.raster[2] + last.arg.mask[2] <= 0
    /\ last.arg.result = Returned(FALSE)

---------------------------------------------------------------------------
(* C17: zero scale *)

C17_HasZero(v) == IsZero(v[1]) \/ IsZero(v[2])

\* C17: assigning a scale with a zero component, or any scale to a shape
\* whose scale has one, raises nothing and leaves the scale non-zero and the
\* pins, anchors and local points as they were; the scale is non-zero in
\* every state and no points write raises.
C17_ZeroScaleRefused ==
    /\ ~C17_HasZero(shape.m_Scale)
    /\ (last.op = "scale_assign"
           /\ (C17_HasZero(last.arg) \/ C17_HasZero(last.shape.m_Scale))) =>
          /\ call.result.raised = "none"
          /\ AttachmentsKept(last.shape, last.anchors)
          /\ shape.m_PointsLocalSpace = last.shape.m_PointsLocalSpace
    /\ last.op = "points_assign" => call.result.raised = "none"

---------------------------------------------------------------------------
(* C18: closest point on a segment *)

C18_Called == last.op = "closest_point"

C18_Dot(u, v) == RAdd(RMul(u[1], v[1]), RMul(u[2], v[2]))

C18_Sub(u, v) == <<RSub(u[1], v[1]), RSub(u[2], v[2])>>

\* the perpendicular foot of p lies within the segment a, b (a # b):
\* 0 <= (p - a).(b - a) <= (b - a).(b - a)
C18_FootInside(a, b, p) ==
    /\ RLe(R(0), C18_Dot(C18_Sub(p, a), C18_Sub(b, a)))
    /\ RLe(C18_Dot(C18_Sub(p, a), C18_Sub(b, a)), C18_Dot(C18_Sub(b, a), C18_Sub(b, a)))

C18_Expected(a, b, p) ==
    IF a = b \/ ~C18_FootInside(a, b, p) THEN <<>>
    ELSE IF a[1] = b[1] THEN <<a[1], p[2]>>
    ELSE IF a[2] = b[2] THEN <<p[1], a[2]>>
    ELSE call.result.value

\* C18: closest_point returns None for every degenerate segment and whenever
\* the foot falls outside the segment, the foot (a.x, p.y) or (p.x, a.y) of a
\* vertical or horizontal segment when it lies within, and never raises.
C18_ClosestPoint ==
    C18_Called =>
        /\ call.result.raised = "none"
        /\ call.result.value = C18_Expected(call.args[1], call.args[2], call.args[3])
        /\ (call.args[1] # call.args[2]
              /\ C18_FootInside(call.args[1], call.args[2], call.args[3]))
                => call.result.value # <<>>

---------------------------------------------------------------------------
(* C19: re-centering *)

\* calculate_hitbox(True) has just run, directly or at the end of del_point
C19_Recentred ==
    \/ last.op = "calculate_hitbox" /\ last.arg = TRUE
    \/ last.op = "right_click" /\ Len(last.shape.m_PointsLocalSpace) > 3

C19_TransformKept ==
    /\ shape.m_Scale = last.shape.m_Scale
    /\ shape.m_RotationDegrees = last.shape.m_RotationDegrees
    /\ shape.m_Flipped = last.shape.m_Flipped

\* C19: calculate_hitbox(align_center=True) leaves every pin and bound
\* anchor, the absolute position of every vertex and scale, rotation and
\* flipped as they were, and sets the center offset to (0, 0).
C19_RecentreIsReexpression ==
    C19_Recentred =>
        /\ AttachmentsKept(last.shape, last.anchors)
        /\ C19_TransformKept
        /\ shape._center_offset = <<R(0), R(0)>>
        /\ last.op = "calculate_hitbox" => AbsVertices(shape) = AbsVertices(last.shape)
        /\ last.op = "right_click" =>
              AbsVertices(shape) = C10_Without(AbsVertices(last.shape), last.arg)

\* a shape with pins and a bound anchor whose position moved in re-centering
C19_Witness ==
    /\ last.op = "calculate_hitbox"
    /\ last.arg = TRUE
    /\ XY(shape.m_Pos) # XY(last.shape.m_Pos)
    /\ last.shape.m_RotationDegrees = 90
    /\ Len(Pins(shape)) > 0
    /\ BoundRefs(shape, anchors) # {}

---------------------------------------------------------------------------
(* C20: the position after re-centering *)

C20_Next(pts, i) == IF i = Len(pts) THEN 1 ELSE i + 1

C20_Cross(pts, i) ==
    RSub(RMul(pts[i][1], pts[C20_Next(pts, i)][2]),
         RMul(pts[C20_Next(pts, i)][1], pts[i][2]))

\* the sum over the edges of the cross product (k = 0) or of the cross
\* product times the sum of the k-th coordinates of the edge's ends
RECURSIVE C20_Sum(_, _, _)
C20_Sum(pts, k, i) ==
    IF i > Len(pts) THEN R(0)
    ELSE RAdd(IF k = 0 THEN C20_Cross(pts, i)
              ELSE RMul(RAdd(pts[i][k], pts[C20_Next(pts, i)][k]), C20_Cross(pts, i)),
              C20_Sum(pts, k, i + 1))

\* the centroid of the polygon's area; the vertices listed have non-zero area
C20_Centroid(pts) ==
    <<RDiv(C20_Sum(pts, 1, 1), RMul(R(3), C20_Sum(pts, 0, 1))),
      RDiv(C20_Sum(pts, 2, 1), RMul(R(3), C20_Sum(pts, 0, 1)))>>

\* C20: after calculate_hitbox(True) the position is the centroid of the
\* polygon's world vertices, and after calculate_hitbox(False) the center
\* offset is the position minus that centroid.
C20_PositionIsCentroid ==
    last.op = "calculate_hitbox" =>
        IF last.arg
        THEN XY(shape.m_Pos) = C20_Centroid(AbsVertices(shape))
        ELSE shape._center_offset =
                hitbox_offset(shape.m_Pos, C20_Centroid(AbsVertices(shape)))

---------------------------------------------------------------------------
(* C21: the raster coordinates of the vertices *)

\* raster coordinate v on an axis of the bitmap whose size is RES * extent + 1
C21_Inside(v, size) == 0 <= v /\ RLe(R(v), RSub(size, R(1)))

\* C21: every vertex's raster coordinate computed in calculate_hitbox lies
\* inside the bitmap, 0 <= x <= RES * width and 0 <= y <= RES * height,
\* for every shape, also one whose points are not centred on its position.
C21_RasterInsideBitmap ==
    \A i \in DOMAIN shape._hitbox.points_hitbox :
        /\ C21_Inside(shape._hitbox.points_hitbox[i][1], shape._hitbox.size[1])
        /\ C21_Inside(shape._hitbox.points_hitbox[i][2], shape._hitbox.size[2])

---------------------------------------------------------------------------
(* C22: hit-test alignment *)

\* raster coordinate v is the middle of the mask's axis of the given size,
\* up to rounding
C22_Middle(v, size) == RLe(RAbs(RSub(R(v), RDiv(R(size), R(2)))), R(1))

C22_Centred(raster) ==
    /\ C22_Middle(raster[1], mask_get_size(shape._hitbox)[1])
    /\ C22_Middle(raster[2], mask_get_size(shape._hitbox)[2])

\* C22: the pixel at which render draws the centre of the shape's bounding
\* box is mapped by collidepoint and colliderect to the centre of the mask on
\* both raster axes, whatever the center offset, zoom and camera.
C22_HitTestAligned ==
    last.op = "hit_centre" =>
        /\ C22_Centred(last.arg.point.raster)
        /\ C22_Centred(last.arg.rect.raster)

---------------------------------------------------------------------------
(* C23: group move *)

\* the anchors bound to at least one of the objects the last handler moved
C23_BoundToSelection ==
    {r \in DOMAIN Before.anchor_nodes :
        \E o \in Handled : is_shape(Before, o) /\ r \in Range(Before.shapes[o].anchors)}

\* C23: when the editor moves the selection by d, every anchor bound to at
\* least one selected shape ends displaced by exactly d, also an anchor that
\* two selected shapes reference, and every other anchor stays.
C23_GroupMoveRigid ==
    last.op = "move" =>
        \A r \in DOMAIN Before.anchor_nodes :
            XY(layout.anchor_nodes[r].m_Pos) =
                IF r \in C23_BoundToSelection
                THEN Offset(XY(Before.anchor_nodes[r].m_Pos), last.arg)
                ELSE XY(Before.anchor_nodes[r].m_Pos)

---------------------------------------------------------------------------
(* C24: referential integrity of the anchor bindings *)

\* the identifiers of the anchors in the document's anchors collection
C24_AnchorIds(lay) ==
    {lay.anchor_nodes[r].m_Guid : r \in Range(lay.anchors._dictlist)}

\* every identifier a shape of the document lists resolves
C24_Resolves(lay) ==
    \A o \in Range(lay.custom_shapes._dictlist) :
        Range(lay.shapes[o].m_DynamicAnchorGuids) \subseteq C24_AnchorIds(lay)

C24_DuplicatesAndDeletes ==
    /\ last.op \in {"init", "copy", "delete"}
    /\ prev.op \in {"init", "copy", "delete"}

\* C24: after any sequence of duplicate and delete actions on a document in
\* which every anchor identifier resolves, every identifier in every
\* remaining shape's list still refers to an anchor of the anchors collection.
C24_ReferentialIntegrity ==
    C24_DuplicatesAndDeletes => C24_Resolves(layout)

=============================================================================
